---- MODULE Spec2Model ----
(***************************************************************************)
(* LowLevelCallDetector (slither/detectors/low-level-call-detector.py).    *)
(*                                                                         *)
(* The detector walks compilation_unit.contracts_derived, each contract's  *)
(* functions_declared and each function's nodes.  A node of type           *)
(* EXPRESSION whose rendered expression matches the regular expression     *)
(*     \.call(\{.*\})?\(.*\)                                               *)
(* is reported unless the node found by get_previous_node carries the      *)
(* comment "[slither: low-level call explicitly allowed]" in its source.   *)
(*                                                                         *)
(* Texts are sequences of one-character strings, so that the regular       *)
(* expression and the substring test work on characters as the code does.  *)
(***************************************************************************)
EXTENDS Integers, Sequences, FiniteSets

VARIABLES
    compilation_unit,   \* the program model handed to the detector
    ci,                 \* position in compilation_unit.contracts_derived
    fi,                 \* position in contract.functions_declared
    ni,                 \* position in function.nodes
    results,            \* the list _detect builds and returns
    origins,            \* history: for each result, the place it was appended at
    previous_node,      \* the last value get_previous_node returned
    pc,                 \* where the pass is
    expression_str,     \* the text handed to low_level_call_pattern.search
    matched             \* whether that search found a match

vars == <<compilation_unit, ci, fi, ni, results, origins, previous_node, pc,
          expression_str, matched>>

(***************************************************************************)
(* Bounds of the model.                                                    *)
(***************************************************************************)
\* Longest node sequence of a function.
MaxNodes == 3

\* Most contracts of a compilation unit.
MaxContracts == 2

\* Most functions of a compilation unit, over all its contracts.
MaxUnitFunctions == 2

\* Most nodes of a compilation unit with several functions, over all of them.
MaxUnitNodes == 2

\* Most tokens of an enumerated expression text.
MaxTokens == 6

(***************************************************************************)
(* Texts.                                                                  *)
(***************************************************************************)
\* allowed_comment = "[slither: low-level call explicitly allowed]"
allowed_comment ==
    <<"[","s","l","i","t","h","e","r",":"," ","l","o","w","-","l","e","v","e","l"," ","c","a","l","l"," ","e","x","p","l","i","c","i","t","l","y"," ","a","l","l","o","w","e","d","]">>

\* str(None)
NoneStr ==
    <<"N","o","n","e">>

\* The literal part of the pattern: \.call
LiteralDotCall ==
    <<".","c","a","l","l">>

\* Expression renderings of the nodes of the model.
ExprCall ==
    <<"a","d","d","r",".","c","a","l","l","(","d","a","t","a",")">>

ExprCallValue ==
    <<"a","d","d","r",".","c","a","l","l","{","v","a","l","u","e",":"," ","1","}","(","\"","\"",")">>

ExprAssign ==
    <<"x"," ","="," ","1">>

ExprTransfer ==
    <<"y",".","t","r","a","n","s","f","e","r","(","x",")">>

ExprCond ==
    <<"x"," ",">"," ","0">>

\* Source texts of the nodes of the model.
SrcAllowed ==
    <<"/","/"," ","[","s","l","i","t","h","e","r",":"," ","l","o","w","-","l","e","v","e","l"," ","c","a","l","l"," ","e","x","p","l","i","c","i","t","l","y"," ","a","l","l","o","w","e","d","]">>

SrcNearBracket ==
    <<"/","/"," ","(","s","l","i","t","h","e","r",":"," ","l","o","w","-","l","e","v","e","l"," ","c","a","l","l"," ","e","x","p","l","i","c","i","t","l","y"," ","a","l","l","o","w","e","d",")">>

SrcNearCase ==
    <<"/","/"," ","[","S","l","i","t","h","e","r",":"," ","L","o","w","-","L","e","v","e","l"," ","C","a","l","l"," ","E","x","p","l","i","c","i","t","l","y"," ","A","l","l","o","w","e","d","]">>

SrcNearWording ==
    <<"/","/"," ","[","s","l","i","t","h","e","r",":"," ","l","o","w","-","l","e","v","e","l"," ","c","a","l","l"," ","a","l","l","o","w","e","d","]">>

SrcNearTruncated ==
    <<"/","/"," ","[","s","l","i","t","h","e","r",":"," ","l","o","w","-","l","e","v","e","l"," ","c","a","l","l"," ","e","x","p","l","i","c","i","t","l","y"," ","a","l","l","o","w","e","d">>

SrcCallAllowedInside ==
    <<"a","d","d","r",".","c","a","l","l","(","d","a","t","a",")"," ","/","*"," ","[","s","l","i","t","h","e","r",":"," ","l","o","w","-","l","e","v","e","l"," ","c","a","l","l"," ","e","x","p","l","i","c","i","t","l","y"," ","a","l","l","o","w","e","d","]"," ","*","/">>

SrcIfCall ==
    <<"i","f"," ","(","a","d","d","r",".","c","a","l","l","(","d","a","t","a",")",")">>

SrcIfAllowed ==
    <<"i","f"," ","(","x"," ",">"," ","0",")"," ","/","/"," ","[","s","l","i","t","h","e","r",":"," ","l","o","w","-","l","e","v","e","l"," ","c","a","l","l"," ","e","x","p","l","i","c","i","t","l","y"," ","a","l","l","o","w","e","d","]">>

\* The fixed parts of the message of a result.
MsgHead ==
    <<"F","u","n","c","t","i","o","n"," ">>

MsgMid ==
    <<" ","c","o","n","t","a","i","n","s"," ","a"," ","l","o","w","-","l","e","v","e","l"," ","c","a","l","l",":"," ">>

MsgTail ==
    <<" ","w","i","t","h","o","u","t"," ","e","x","p","l","i","c","i","t"," ","c","o","m","m","e","n","t"," ","a","l","l","o","w","a","n","c","e">>

\* Expression texts named by the specification, and two that separate the
\* readings of the pattern.
ExA ==
    <<"x",".","c","a","l","l","(","d","a","t","a",")">>

ExB ==
    <<"x",".","c","a","l","l","{","v","a","l","u","e",":"," ","1","}","(","d","a","t","a",")">>

ExC ==
    <<"t","a","r","g","e","t",".","c","a","l","l","{","v","a","l","u","e",":"," ","v",","," ","g","a","s",":"," ","g","}","(","\"","\"",")">>

ExD ==
    <<"x",".","t","r","a","n","s","f","e","r","(","1",")">>

ExE ==
    <<"x",".","c","a","l","l","e","r">>

ExF ==
    <<"a",".","c","a","l","l","{","x","}","y","}","(","z",")">>

ExG ==
    <<"x",".","c","a","l","l","(","\"","a","\n","b","\"",")">>

(***************************************************************************)
(* low_level_call_pattern = re.compile(r'\.call(\{.*\})?\(.*\)')           *)
(* The operators below follow the backtracking matcher of Python's re on   *)
(* this pattern: greedy `.*`, giving back one character at a time.         *)
(***************************************************************************)
\* `.` without re.DOTALL: any character except a line feed.
Dot(c) == c # "\n"

\* Greedy `.*` entered at p: the last position it consumes (p - 1 for none).
RECURSIVE star_extent(_, _)
star_extent(s, p) ==
    IF p <= Len(s) /\ Dot(s[p]) THEN star_extent(s, p + 1) ELSE p - 1

\* `.*\)` with `.*` holding s[lo..e]: `\)` is tried at e + 1, and on failure
\* `.*` gives back its last character.
RECURSIVE args_backtrack(_, _, _)
args_backtrack(s, lo, e) ==
    IF e + 1 <= Len(s) /\ s[e + 1] = ")" THEN TRUE
    ELSE IF e >= lo THEN args_backtrack(s, lo, e - 1)
    ELSE FALSE

\* `\(.*\)` at position k.
match_args(s, k) ==
    /\ k <= Len(s)
    /\ s[k] = "("
    /\ args_backtrack(s, k + 1, star_extent(s, k + 1))

\* `.*\}` followed by `\(.*\)`, with `.*` holding s[lo..e].
RECURSIVE options_backtrack(_, _, _)
options_backtrack(s, lo, e) ==
    IF e + 1 <= Len(s) /\ s[e + 1] = "}" /\ match_args(s, e + 2) THEN TRUE
    ELSE IF e >= lo THEN options_backtrack(s, lo, e - 1)
    ELSE FALSE

\* The group `\{.*\}` at position j, followed by `\(.*\)`.
match_options(s, j) ==
    /\ j <= Len(s)
    /\ s[j] = "{"
    /\ options_backtrack(s, j + 1, star_extent(s, j + 1))

\* The literal `\.call` at position i.
match_literal(s, i) ==
    /\ i + Len(LiteralDotCall) - 1 <= Len(s)
    /\ \A d \in 1..Len(LiteralDotCall) : s[i + d - 1] = LiteralDotCall[d]

\* The whole pattern at position i: the optional group is tried first.
match_at(s, i) ==
    /\ match_literal(s, i)
    /\ \/ match_options(s, i + Len(LiteralDotCall))
       \/ match_args(s, i + Len(LiteralDotCall))

\* low_level_call_pattern.search(expression_str), as a truth value.
low_level_call_pattern_search(s) ==
    \E i \in 1..Len(s) : match_at(s, i)

(***************************************************************************)
(* allowed_comment not in previous_node.source_mapping.get_source_code()   *)
(***************************************************************************)
\* needle occurs in hay at position i.
occurs_at(needle, hay, i) ==
    \A d \in 1..Len(needle) : hay[i + d - 1] = needle[d]

\* Python's `needle in hay` on strings.
contains(needle, hay) ==
    \E i \in 1..(Len(hay) - Len(needle) + 1) : occurs_at(needle, hay, i)

(***************************************************************************)
(* The program model: contracts, functions, nodes.                         *)
(***************************************************************************)
\* What a node can be: its type, its expression (<<>> for None, <<text>>
\* otherwise) and the source text its source mapping renders.
NodeCatalogue ==
    << [type |-> "EXPRESSION", expression |-> <<ExprCall>>,      source |-> ExprCall],
       [type |-> "EXPRESSION", expression |-> <<ExprCallValue>>, source |-> ExprCallValue],
       [type |-> "EXPRESSION", expression |-> <<ExprAssign>>,    source |-> SrcAllowed],
       [type |-> "EXPRESSION", expression |-> <<ExprTransfer>>,  source |-> SrcNearBracket],
       [type |-> "EXPRESSION", expression |-> <<ExprAssign>>,    source |-> SrcNearCase],
       [type |-> "EXPRESSION", expression |-> <<ExprTransfer>>,  source |-> SrcNearWording],
       [type |-> "EXPRESSION", expression |-> <<ExprAssign>>,    source |-> SrcNearTruncated],
       [type |-> "EXPRESSION", expression |-> <<ExprCall>>,      source |-> SrcCallAllowedInside],
       [type |-> "IF",         expression |-> <<ExprCall>>,      source |-> SrcIfCall],
       [type |-> "IF",         expression |-> <<ExprCond>>,      source |-> SrcIfAllowed],
       [type |-> "EXPRESSION", expression |-> <<>>,              source |-> <<>>],
       [type |-> "ENTRYPOINT", expression |-> <<>>,              source |-> <<>>] >>

AllKinds == DOMAIN NodeCatalogue

\* The kinds used in compilation units with several functions: a plain call, a
\* call with a value, and a statement carrying the allowed comment.
CoreKinds == {1, 2, 3}

\* A node is an object (oid) of some kind; two nodes are equal when they are the
\* same object.
\* node.type
node_type(node) == NodeCatalogue[node.kind].type

\* node.expression
node_expression(node) == NodeCatalogue[node.kind].expression

\* node.source_mapping.get_source_code()
get_source_code(node) == NodeCatalogue[node.kind].source

\* Python's None where a node is expected.
NoneNode == [oid |-> 0, kind |-> 0]

\* str(node.expression): str(None) is "None".
str(expression) ==
    IF expression = <<>> THEN NoneStr ELSE expression[1]

\* Every contract of the unit, derived or not (compilation_unit.contracts).
contracts_all(unit) == unit.contracts

\* self.compilation_unit.contracts_derived
contracts_derived(unit) ==
    SelectSeq(unit.contracts, LAMBDA c : c.derived)

\* contract.functions_declared: the functions whose declarer is the contract.
functions_declared(contract) ==
    SelectSeq(contract.functions, LAMBDA f : f.contract_declarer = contract.name)

\* The test `node.expression is not None` in place of the test of the type.
has_expression(node) == node_expression(node) # <<>>

\* node.type == NodeType.EXPRESSION
is_expression_statement(node) == node_type(node) = "EXPRESSION"

\* nodes.index(node): the first position holding an element equal to node.
index(nodes, node) ==
    CHOOSE i \in 1..Len(nodes) :
        /\ nodes[i] = node
        /\ \A j \in 1..(i - 1) : nodes[j] # node

\* get_previous_node without its guard: nodes[-1] is the last element.
get_previous_node_unguarded(function, node) ==
    LET nodes == function.nodes
        node_index == index(nodes, node)
    IN  IF node_index > 1 THEN nodes[node_index - 1] ELSE nodes[Len(nodes)]

\* get_previous_node(self, function, node); positions are counted from 1 here,
\* so `node_index > 0` reads `node_index > 1`.
get_previous_node(function, node) ==
    LET nodes == function.nodes
        node_index == index(nodes, node)
    IN  IF node_index > 1 THEN nodes[node_index - 1] ELSE NoneNode

\* The test of the comment with the last character of the comment left out.
comment_allows_short(node) ==
    contains(SubSeq(allowed_comment, 1, Len(allowed_comment) - 1), get_source_code(node))

\* allowed_comment in previous_node.source_mapping.get_source_code()
comment_allows(node) ==
    contains(allowed_comment, get_source_code(node))

\* The message without the expression.
result_message_short(function, text) ==
    MsgHead \o function.name \o MsgMid \o MsgTail

\* f"Function {function.name} contains a low-level call: {expression_str}
\* without explicit comment allowance"
result_message(function, text) ==
    MsgHead \o function.name \o MsgMid \o text \o MsgTail

\* list.insert(0, item)
insert_first(list, item) == <<item>> \o list

\* results.append(item)
append(list, item) == Append(list, item)

(***************************************************************************)
(* The pass: _detect, one step per loop iteration.                         *)
(***************************************************************************)
\* The contract, function and node the loops are at.
contract == contracts_derived(compilation_unit)[ci]

function == functions_declared(contract)[fi]

InContracts == ci <= Len(contracts_derived(compilation_unit))

InFunctions == InContracts /\ fi <= Len(functions_declared(contract))

InNodes == InFunctions /\ ni <= Len(function.nodes)

\* Where a result comes from.
place ==
    [contract |-> contract.name, declarer |-> function.contract_declarer,
     function |-> function.name, at |-> <<ci, fi, ni>>]

\* The body of `for node in function.nodes`.
VisitNode ==
    /\ pc = "detect"
    /\ InNodes
    /\ LET node == function.nodes[ni]
           text == str(node_expression(node))
       IN  IF is_expression_statement(node) /\ low_level_call_pattern_search(text)
           THEN LET found == get_previous_node(function, node)
                IN  /\ previous_node' = found
                    /\ IF found = NoneNode \/ ~comment_allows(found)
                       THEN /\ results' = append(results, result_message(function, text))
                            /\ origins' = append(origins, place)
                       ELSE UNCHANGED <<results, origins>>
           ELSE UNCHANGED <<results, origins, previous_node>>
    /\ ni' = ni + 1
    /\ UNCHANGED <<compilation_unit, ci, fi, pc, expression_str, matched>>

\* `for node in function.nodes` is exhausted: the next function.
NextFunction ==
    /\ pc = "detect"
    /\ InFunctions
    /\ ni > Len(function.nodes)
    /\ fi' = fi + 1
    /\ ni' = 1
    /\ UNCHANGED <<compilation_unit, ci, results, origins, previous_node, pc,
                   expression_str, matched>>

\* `for function in contract.functions_declared` is exhausted: the next contract.
NextContract ==
    /\ pc = "detect"
    /\ InContracts
    /\ fi > Len(functions_declared(contract))
    /\ ci' = ci + 1
    /\ fi' = 1
    /\ ni' = 1
    /\ UNCHANGED <<compilation_unit, results, origins, previous_node, pc,
                   expression_str, matched>>

\* `return results`
Return ==
    /\ pc = "detect"
    /\ ~InContracts
    /\ pc' = "returned"
    /\ UNCHANGED <<compilation_unit, ci, fi, ni, results, origins, previous_node,
                   expression_str, matched>>

\* low_level_call_pattern.search(expression_str) on its own.
Search ==
    /\ pc = "search"
    /\ matched' = low_level_call_pattern_search(expression_str)
    /\ pc' = "searched"
    /\ UNCHANGED <<compilation_unit, ci, fi, ni, results, origins, previous_node,
                   expression_str>>

(***************************************************************************)
(* The program models the pass is run on.                                  *)
(***************************************************************************)
ContractNames == <<"A", "B", "C", "D">>

FunctionNames == << <<"f">>, <<"g">>, <<"h">>, <<"k">> >>

\* The sequences of at most n kinds.
Bodies(kinds, n) == UNION {[1..k -> kinds] : k \in 0..n}

\* A node sequence in which every position holds an object of its own.
distinct_nodes(body) == [i \in 1..Len(body) |-> [oid |-> i, kind |-> body[i]]]

\* A node sequence in which a kind is one object, which a sequence may hold at
\* several positions.
shared_nodes(body) == [i \in 1..Len(body) |-> [oid |-> body[i], kind |-> body[i]]]

\* One derived contract declaring one function with the given nodes.
single_function_unit(nodes) ==
    [contracts |->
        << [name |-> ContractNames[1], derived |-> TRUE,
            functions |-> << [name |-> FunctionNames[1],
                              contract_declarer |-> ContractNames[1],
                              nodes |-> nodes] >>] >>]

\* s is in ascending order (not strictly).
Ascending(s) == \A i \in 1..(Len(s) - 1) : s[i] <= s[i + 1]

\* The positions of s holding v, in order.
positions(s, v) == SelectSeq([i \in 1..Len(s) |-> i], LAMBDA i : s[i] = v)

\* A compilation unit of c contracts: owner[k] is the contract function k belongs
\* to, inherited[k] tells whether the contract before it declares it, body holds
\* the kinds of all nodes and fn[i] is the function node i belongs to.
build_unit(c, derived, owner, inherited, body, fn) ==
    [contracts |->
        [i \in 1..c |->
            [name |-> ContractNames[i],
             derived |-> derived[i],
             functions |->
                LET mine == positions(owner, i)
                IN  [j \in 1..Len(mine) |->
                        [name |-> FunctionNames[j],
                         contract_declarer |->
                            IF inherited[mine[j]] THEN ContractNames[i - 1]
                            ELSE ContractNames[i],
                         nodes |->
                            LET at == positions(fn, mine[j])
                            IN  [n \in 1..Len(at) |->
                                    [oid |-> n, kind |-> body[at[n]]]]]]]]]

\* The state _detect starts in, for a given compilation unit.
Start(unit) ==
    /\ compilation_unit = unit
    /\ ci = 1
    /\ fi = 1
    /\ ni = 1
    /\ results = <<>>
    /\ origins = <<>>
    /\ previous_node = NoneNode
    /\ pc = "detect"
    /\ expression_str = <<>>
    /\ matched = FALSE

\* One function of at most MaxNodes nodes of every kind, each node an object of
\* its own.
Init ==
    \E body \in Bodies(AllKinds, MaxNodes) :
        Start(single_function_unit(distinct_nodes(body)))

\* One function whose node sequence may hold the same node object twice.
InitRepeat ==
    \E body \in Bodies(AllKinds, MaxNodes) :
        Start(single_function_unit(shared_nodes(body)))

\* Compilation units of at most MaxContracts contracts, MaxUnitFunctions functions
\* and MaxUnitNodes nodes of the core kinds.  A function is inherited only from
\* the contract before its own, and a contract that another one inherits a
\* function from is not derived.
InitUnit ==
    \E c \in 0..MaxContracts :
    \E nf \in 0..MaxUnitFunctions :
    \E owner \in {o \in [1..nf -> 1..c] : Ascending(o)} :
    \E derived \in [1..c -> BOOLEAN] :
    \E inherited \in {h \in [1..nf -> BOOLEAN] :
                        \A k \in 1..nf :
                            h[k] => owner[k] > 1 /\ ~derived[owner[k] - 1]} :
    \E body \in Bodies(CoreKinds, MaxUnitNodes) :
    \E fn \in {g \in [1..Len(body) -> 1..nf] :
                  /\ Ascending(g)
                  /\ \A k \in 1..nf : Len(positions(g, k)) <= MaxNodes} :
        Start(build_unit(c, derived, owner, inherited, body, fn))

Next ==
    \/ VisitNode
    \/ NextFunction
    \/ NextContract
    \/ Return

Spec == Init /\ [][Next]_vars

SpecRepeat == InitRepeat /\ [][Next]_vars

SpecUnit == InitUnit /\ [][Next]_vars

(***************************************************************************)
(* The expression texts the pattern is run on.                             *)
(***************************************************************************)
Tokens ==
    << LiteralDotCall, <<"{">>, <<"}">>, <<"(">>, <<")">>, <<"x">>, <<"\n">> >>

RECURSIVE Flatten(_)
Flatten(ts) ==
    IF ts = <<>> THEN <<>> ELSE Tokens[Head(ts)] \o Flatten(Tail(ts))

NamedTexts == {ExA, ExB, ExC, ExD, ExE, ExF, ExG, NoneStr}

InitMatch ==
    /\ compilation_unit = [contracts |-> <<>>]
    /\ ci = 1
    /\ fi = 1
    /\ ni = 1
    /\ results = <<>>
    /\ origins = <<>>
    /\ previous_node = NoneNode
    /\ pc = "search"
    /\ \/ \E ts \in UNION {[1..n -> DOMAIN Tokens] : n \in 0..MaxTokens} :
              expression_str = Flatten(ts)
       \/ expression_str \in NamedTexts
    /\ matched = FALSE

NextMatch == Search

SpecMatch == InitMatch /\ [][NextMatch]_vars

(***************************************************************************)
(* Properties of the pass over one function (Spec, SpecRepeat).            *)
(***************************************************************************)
\* The node sequence of the one function of a single-function unit.
TheNodes == compilation_unit.contracts[1].functions[1].nodes

\* A result was appended for the node at position i of that function.
Reported(i) == \E k \in 1..Len(origins) : origins[k].at = <<1, 1, i>>

\* The text holds the comment, character for character.
ExactMarkerIn(text) ==
    \E i \in 1..Len(text) :
        /\ i + Len(allowed_comment) - 1 <= Len(text)
        /\ SubSeq(text, i, i + Len(allowed_comment) - 1) = allowed_comment

\* The node is an expression statement whose rendering matches the pattern.
MatchingStatement(node) ==
    /\ node_type(node) = "EXPRESSION"
    /\ low_level_call_pattern_search(str(node_expression(node)))

\* The kinds whose source text is a near miss of the comment.
NearMissKinds == {4, 5, 6, 7}

\* C1: a matching expression statement with a node before it is left out of the
\* results exactly when the source text of the node right before it holds the
\* comment, character for character; the comment in the node itself, two nodes
\* earlier or in the node after it makes no difference.
C1_SuppressionExactness ==
    pc = "returned" =>
        \A i \in 2..Len(TheNodes) :
            MatchingStatement(TheNodes[i]) =>
                (~Reported(i) <=> ExactMarkerIn(get_source_code(TheNodes[i - 1])))

\* A pass that reported a call after a near miss although the call's own source
\* holds the comment, and left out the call after it.
C1_Witness ==
    /\ pc = "returned"
    /\ \E i \in 2..Len(TheNodes) :
          /\ MatchingStatement(TheNodes[i])
          /\ TheNodes[i - 1].kind \in NearMissKinds
          /\ ExactMarkerIn(get_source_code(TheNodes[i]))
          /\ Reported(i)
    /\ \E j \in 2..Len(TheNodes) :
          /\ MatchingStatement(TheNodes[j])
          /\ ExactMarkerIn(get_source_code(TheNodes[j - 1]))
          /\ ~Reported(j)

\* C5: a pass over a function holding an expression statement without an
\* expression fails and returns no list of results.
C5_FailFast ==
    (\E i \in 1..Len(TheNodes) :
        /\ node_type(TheNodes[i]) = "EXPRESSION"
        /\ node_expression(TheNodes[i]) = <<>>)
    => pc # "returned"

\* C8: the node the suppression check inspects for the node visited at position
\* ni is the element at position ni - 1 of the same sequence, and none at the
\* first position.
C8_PositionalPredecessor ==
    [][ (pc = "detect" /\ InNodes /\ MatchingStatement(function.nodes[ni]))
        => previous_node' =
              IF ni > 1 THEN function.nodes[ni - 1] ELSE NoneNode ]_vars

\* C9: a node that is no expression statement is never reported, whatever its
\* expression and source text; it is the node inspected for the node after it:
\* with the comment in its source it suppresses that node, without it the node
\* after it is reported.
C9_NonExpressionSkipped ==
    pc = "returned" =>
        /\ \A i \in 1..Len(TheNodes) :
              node_type(TheNodes[i]) # "EXPRESSION" => ~Reported(i)
        /\ \A i \in 2..Len(TheNodes) :
              (node_type(TheNodes[i - 1]) # "EXPRESSION" /\ MatchingStatement(TheNodes[i]))
              => (Reported(i) <=> ~ExactMarkerIn(get_source_code(TheNodes[i - 1])))

\* A pass over an `if` whose condition is a call, an `if` carrying the comment
\* and a call: nothing is reported for the first and the last.
C9_Witness ==
    /\ pc = "returned"
    /\ \E i \in 1..Len(TheNodes) :
          /\ node_type(TheNodes[i]) = "IF"
          /\ low_level_call_pattern_search(str(node_expression(TheNodes[i])))
          /\ (i > 1 => ~ExactMarkerIn(get_source_code(TheNodes[i - 1])))
          /\ ~Reported(i)
    /\ \E j \in 2..Len(TheNodes) :
          /\ node_type(TheNodes[j - 1]) = "IF"
          /\ ExactMarkerIn(get_source_code(TheNodes[j - 1]))
          /\ MatchingStatement(TheNodes[j])
          /\ ~Reported(j)

(***************************************************************************)
(* Properties of the pass over several contracts and functions (SpecUnit). *)
(***************************************************************************)
\* The function and the node at a place <<c, f, n>> of the traversal.
FunctionAt(at) ==
    functions_declared(contracts_derived(compilation_unit)[at[1]])[at[2]]

NodeAt(at) == FunctionAt(at).nodes[at[3]]

\* Every place <<c, f, n>> of the traversal.
Places ==
    UNION { UNION { { <<c, f, n>> :
                        n \in 1..Len(FunctionAt(<<c, f, 1>>).nodes) }
                    : f \in 1..Len(functions_declared(
                                     contracts_derived(compilation_unit)[c])) }
            : c \in 1..Len(contracts_derived(compilation_unit)) }

\* A result was appended at the place.
ReportedAt(at) == \E k \in 1..Len(origins) : origins[k].at = at

\* Place a comes before place b in the traversal.
Before(a, b) ==
    \/ a[1] < b[1]
    \/ a[1] = b[1] /\ a[2] < b[2]
    \/ a[1] = b[1] /\ a[2] = b[2] /\ a[3] < b[3]

\* The node at the place matches and the node right before it in its function,
\* if any, does not hold the comment.
Flagged(at) ==
    /\ MatchingStatement(NodeAt(at))
    /\ at[3] > 1 =>
          ~ExactMarkerIn(get_source_code(FunctionAt(at).nodes[at[3] - 1]))

\* C2: a matching expression statement that is the first node of a traversed
\* function is always reported, whatever the other nodes of the function and
\* whatever the function or contract traversed before it ends with.
C2_FirstNodeExemption ==
    pc = "returned" =>
        \A at \in Places :
            (at[3] = 1 /\ MatchingStatement(NodeAt(at))) => ReportedAt(at)

\* A pass that reported the first node of the first function of a contract
\* although the last node traversed before it, in the contract before, holds
\* the comment.
C2_Witness ==
    /\ pc = "returned"
    /\ \E c \in 2..Len(contracts_derived(compilation_unit)) :
          LET before == functions_declared(contracts_derived(compilation_unit)[c - 1])
              here == functions_declared(contracts_derived(compilation_unit)[c])
          IN  /\ Len(before) > 0
              /\ Len(before[Len(before)].nodes) > 0
              /\ ExactMarkerIn(get_source_code(
                    before[Len(before)].nodes[Len(before[Len(before)].nodes)]))
              /\ Len(here) > 0
              /\ Len(here[1].nodes) > 0
              /\ MatchingStatement(here[1].nodes[1])
              /\ ReportedAt(<<c, 1, 1>>)

\* C4: the results are listed in the order in which their nodes are met by the
\* traversal: contract order, then function order, then node order.
C4_Ordering ==
    /\ Len(results) = Len(origins)
    /\ \A a, b \in 1..Len(origins) :
          a < b => Before(origins[a].at, origins[b].at)
    /\ \A k \in 1..Len(origins) :
          results[k] = result_message(FunctionAt(origins[k].at),
                                      str(node_expression(NodeAt(origins[k].at))))

\* A returned list of two results that come from two contracts.
C4_Witness ==
    /\ pc = "returned"
    /\ Len(results) >= 2
    /\ origins[1].at[1] < origins[2].at[1]

\* C6: every result belongs to one place of the traversal whose node is an
\* expression statement that matched and was not suppressed, its message names
\* the function and the rendering of the expression, no place has two results,
\* and a completed pass has as many results as flagged places.
C6_FindingCorrespondence ==
    /\ Len(results) = Len(origins)
    /\ \A k \in 1..Len(origins) :
          /\ origins[k].at \in Places
          /\ Flagged(origins[k].at)
          /\ origins[k].function = FunctionAt(origins[k].at).name
          /\ results[k] =
                MsgHead \o FunctionAt(origins[k].at).name \o MsgMid
                    \o node_expression(NodeAt(origins[k].at))[1] \o MsgTail
    /\ \A a, b \in 1..Len(origins) :
          a # b => origins[a].at # origins[b].at
    /\ pc = "returned" =>
          Len(results) = Cardinality({at \in Places : Flagged(at)})

\* A returned list of two results with the same message, from the functions of
\* the same name of two contracts: each place keeps its own result.
C6_Witness ==
    /\ pc = "returned"
    /\ Len(results) = 2
    /\ results[1] = results[2]
    /\ origins[1].at # origins[2].at

\* The matching statements of the functions that a derived contract declares.
InScope ==
    { p \in UNION { UNION { { <<i, j, n>> :
                n \in 1..Len(compilation_unit.contracts[i].functions[j].nodes) }
              : j \in 1..Len(compilation_unit.contracts[i].functions) }
            : i \in 1..Len(compilation_unit.contracts) } :
        /\ compilation_unit.contracts[p[1]].derived
        /\ compilation_unit.contracts[p[1]].functions[p[2]].contract_declarer
              = compilation_unit.contracts[p[1]].name
        /\ MatchingStatement(compilation_unit.contracts[p[1]].functions[p[2]].nodes[p[3]]) }

\* C7: every result comes from, and names, a function that a contract of the
\* derived set declares itself; functions declared only by a contract outside
\* the derived set give no result, inherited by a derived contract or not.
C7_TraversalScope ==
    /\ Len(results) = Len(origins)
    /\ \A k \in 1..Len(origins) :
          \E i \in 1..Len(compilation_unit.contracts) :
              /\ compilation_unit.contracts[i].name = origins[k].contract
              /\ compilation_unit.contracts[i].derived
              /\ origins[k].declarer = origins[k].contract
              /\ \E j \in 1..Len(compilation_unit.contracts[i].functions) :
                    /\ compilation_unit.contracts[i].functions[j].name
                          = origins[k].function
                    /\ compilation_unit.contracts[i].functions[j].contract_declarer
                          = origins[k].contract
              /\ SubSeq(results[k], Len(MsgHead) + 1,
                        Len(MsgHead) + Len(origins[k].function))
                    = origins[k].function
    /\ Len(results) <= Cardinality(InScope)

\* A completed pass without results over a contract outside the derived set
\* that declares a function starting with a call, and a derived contract that
\* inherits a function starting with a call.
C7_Witness ==
    /\ pc = "returned"
    /\ results = <<>>
    /\ \E i \in 1..Len(compilation_unit.contracts) :
       \E j \in 1..Len(compilation_unit.contracts[i].functions) :
          /\ ~compilation_unit.contracts[i].derived
          /\ compilation_unit.contracts[i].functions[j].contract_declarer
                = compilation_unit.contracts[i].name
          /\ Len(compilation_unit.contracts[i].functions[j].nodes) > 0
          /\ MatchingStatement(compilation_unit.contracts[i].functions[j].nodes[1])
    /\ \E i \in 1..Len(compilation_unit.contracts) :
       \E j \in 1..Len(compilation_unit.contracts[i].functions) :
          /\ compilation_unit.contracts[i].derived
          /\ compilation_unit.contracts[i].functions[j].contract_declarer
                # compilation_unit.contracts[i].name
          /\ Len(compilation_unit.contracts[i].functions[j].nodes) > 0
          /\ MatchingStatement(compilation_unit.contracts[i].functions[j].nodes[1])

(***************************************************************************)
(* Properties of the pattern (SpecMatch).                                  *)
(***************************************************************************)
\* `.call` stands at position i of the text.
DotCallAt(s, i) ==
    /\ i + 4 <= Len(s)
    /\ SubSeq(s, i, i + 4) = <<".", "c", "a", "l", "l">>

\* The text holds `.call`, at once followed by an optional `{...}`, at once
\* followed by `(...)`, where `...` is any run of characters.
ShapeAnyRun(s) ==
    \E i \in 1..Len(s) :
        /\ DotCallAt(s, i)
        /\ \/ /\ i + 5 <= Len(s)
              /\ s[i + 5] = "("
              /\ \E d \in (i + 6)..Len(s) : s[d] = ")"
           \/ /\ i + 5 <= Len(s)
              /\ s[i + 5] = "{"
              /\ \E c \in (i + 6)..(Len(s) - 1) :
                    /\ s[c] = "}"
                    /\ s[c + 1] = "("
                    /\ \E d \in (c + 2)..Len(s) : s[d] = ")"

\* The same shape, where the options block ends at the first `}` after its `{`
\* and the argument list at the first `)` after its `(`.
NonGreedyReference(s) ==
    \E i \in 1..Len(s) :
        /\ DotCallAt(s, i)
        /\ \/ /\ i + 5 <= Len(s)
              /\ s[i + 5] = "("
              /\ \E d \in (i + 6)..Len(s) :
                    /\ s[d] = ")"
                    /\ \A x \in (i + 6)..(d - 1) : s[x] # ")"
           \/ /\ i + 5 <= Len(s)
              /\ s[i + 5] = "{"
              /\ \E c \in (i + 6)..(Len(s) - 1) :
                    /\ s[c] = "}"
                    /\ \A x \in (i + 6)..(c - 1) : s[x] # "}"
                    /\ s[c + 1] = "("
                    /\ \E d \in (c + 2)..Len(s) :
                          /\ s[d] = ")"
                          /\ \A x \in (c + 2)..(d - 1) : s[x] # ")"

\* C3: the search finds `x.call(data)`, `x.call{value: 1}(data)` and
\* `target.call{value: v, gas: g}("")`, finds nothing in `x.transfer(1)` and
\* `x.caller`, and in general finds a match exactly when the text holds `.call`,
\* an optional `{...}` and `(...)` in a row, each `...` any run of characters.
C3_PatternCoverage ==
    pc = "searched" =>
        /\ expression_str \in {ExA, ExB, ExC} => matched
        /\ expression_str \in {ExD, ExE} => ~matched
        /\ matched <=> ShapeAnyRun(expression_str)

\* C10: for every text the result of the search is that of the reference in
\* which each block ends at the first closing delimiter after its opening one;
\* `a.call{x}y}(z)` is decided the same way by both.
C10_NonGreedyEquivalence ==
    pc = "searched" => (matched <=> NonGreedyReference(expression_str))

====
